---- MODULE Spec2Model ----
(***************************************************************************)
(* Queue rotation and conflict resolution of the maid-tg-bot handlers:     *)
(* handlers/other_core_modules/resolve_conflict.py (ask_for_reason,        *)
(* inform_and_resolve, swap_users, skip_chore_today) and                   *)
(* handlers/queue_config/reorder_queue.py (ask_to_pick, ask_to_position,   *)
(* reorder_queue), over the mongo "queues" collection and the apscheduler  *)
(* job store.                                                              *)
(*                                                                         *)
(* Python lists are functions over 0..N-1, so indices read as in the       *)
(* source.  A string is the sequence of its "_"-free segments: an f-string *)
(* "a_{x}_{y}" is a concatenation of sequences and str.split("_") returns  *)
(* the segments.  A member's name is its user id.                          *)
(***************************************************************************)
EXTENDS Integers, Sequences, FiniteSets, TLC

\* ------------------------------------------------------------- bounds
\* number of requests explored: reasons received by inform_and_resolve,
\* presses received by swap_users, positions received by reorder_queue and
\* restarts of the process, taken together
MaxOps == 3

\* number of successive turn advancements explored on one queue
MaxAdvances == 8

\* ------------------------------------------------------ database content
\* falsy group chat id: the team has no group chat yet
NoChat == 0
\* Python None for a position that was not found
None == -1

Users == {1, 2, 3, 4}
TeamIds == {1, 4}

\* the "users" collection: user_id -> team_id (team id is the admin's user id)
users == [u \in Users |-> IF u = 4 THEN 4 ELSE 1]

\* the group chat a team gets once the bot is added to its group
GroupChatOf(t) == 0 - (10 + t)

\* str(team_id) and int(text) on the ids in use
IntStr(n) == CASE n = 1 -> "1" [] n = 4 -> "4"
IsIntStr(s) == s \in {"1", "4"}
StrInt(s) == CASE s = "1" -> 1 [] s = "4" -> 4

DishesQueue == <<"dishes">>

TrashQueue == <<"trash">>

\* a queue the team named "dry_dishes"
DryDishes == <<"dry", "dishes">>

VARIABLES
    queues,        \* "queues" collection: team id -> (queue name -> array)
    teams,         \* team id -> group chat id (NoChat when none)
    fsm,           \* per user FSM state and data of the private chat
    jobs,          \* the scheduler's job store
    running,       \* skip_chore_today jobs submitted and not yet through
    buttons,       \* group messages that still carry 'I can do it.', each
                   \* with the member its text names and the button's payload
    swapping,      \* swap_users invocations between their awaits
    msg_seq,       \* number of escalations broadcast so far
    swapsApplied,  \* per escalation: swaps written to the store
    skipNotices,   \* per escalation: skip notices broadcast
    ops,           \* reasons, presses, reorder positions and restarts so far
    out,           \* the refusal the last step sent back, if it sent one
    boots,         \* log of restarts: the timers found armed and found overdue
    adv            \* a queue array under repeated turn advancement

vars == <<queues, teams, fsm, jobs, running, buttons, swapping, msg_seq,
          swapsApplied, skipNotices, ops, out, boots, adv>>

\* ------------------------------------------------------------- helpers
Len0(q) == Cardinality(DOMAIN q)

Last(s) == s[Len(s)]

EmptyArray == [i \in {} |-> 0]

\* a queue array from a sequence of user ids, turn on 0-based index ct
MkQueue(ids, ct) ==
    [i \in 0..(Len(ids) - 1) |-> [user_id |-> ids[i + 1], current_turn |-> (i = ct)]]

Holders(q) == {i \in DOMAIN q : q[i].current_turn}

get_team_id(user_id) == users[user_id]

get_team_chat(user_id) == teams[get_team_id(user_id)]

HasQueue(team_id, queue_name) ==
    team_id \in DOMAIN queues /\ queue_name \in DOMAIN queues[team_id]

get_queue_array(team_id, queue_name) == queues[team_id][queue_name]

\* position of the (first) member whose current_turn is set
get_current_turn(q_array) ==
    IF Holders(q_array) = {} THEN None
    ELSE CHOOSE i \in Holders(q_array) : \A j \in Holders(q_array) : i <= j

\* the enumerate loop of swap_users: the last index whose user_id matches
FindUserPos(q_array, user_id) ==
    LET hits == {i \in DOMAIN q_array : q_array[i].user_id = user_id}
    IN IF hits = {} THEN None
       ELSE CHOOSE i \in hits : \A j \in hits : j <= i

\* queues.update_one({"id": team_id}, {"$set": {"queues.<name>": array}}, upsert)
UpdateOne(store, team_id, queue_name, q_array) ==
    IF team_id \in DOMAIN store
    THEN [store EXCEPT ![team_id] = (queue_name :> q_array) @@ store[team_id]]
    ELSE (team_id :> (queue_name :> q_array)) @@ store

\* a slip that forgets to clear the old holder's flag
reassign_keeping_old(q_array, ct_pos) ==
    [q_array EXCEPT ![(ct_pos + 1) % Len0(q_array)].current_turn = TRUE]

\* a slip that forgets to wrap at the end of the queue
reassign_without_wrap(q_array, ct_pos) ==
    LET cleared == [q_array EXCEPT ![ct_pos].current_turn = FALSE]
        next == IF ct_pos + 1 < Len0(q_array) THEN ct_pos + 1 ELSE ct_pos
    IN  [cleared EXCEPT ![next].current_turn = TRUE]

\* lines 200-202: reassigning current_turn
reassign_current_turn(q_array, ct_pos) ==
    LET cleared == [q_array EXCEPT ![ct_pos].current_turn = FALSE]
    IN  [cleared EXCEPT ![(ct_pos + 1) % Len0(q_array)].current_turn = TRUE]

\* a slip that assigns one after the other instead of exchanging
swap_positions_overwriting(q_array, ct_pos, user_pos) ==
    [q_array EXCEPT ![ct_pos] = q_array[user_pos], ![user_pos] = q_array[user_pos]]

\* line 204: swapping positions in the queue
swap_positions(q_array, ct_pos, user_pos) ==
    [q_array EXCEPT ![ct_pos] = q_array[user_pos], ![user_pos] = q_array[ct_pos]]

\* the array swap_users stores for the array it read
swapped_array(q_array, ct_pos, user_pos) ==
    swap_positions(reassign_current_turn(q_array, ct_pos), ct_pos, user_pos)

Say(kind, user) == [kind |-> kind, user |-> user]

Silent == Say("none", 0)

IdleFsm ==
    [state |-> "none", queue_name |-> <<>>, queue_array |-> EmptyArray,
     from_position |-> None]

IdleSwap ==
    [pc |-> "idle", team_id |-> 0, queue_name |-> <<>>, q_array |-> EmptyArray,
     ct_pos |-> None, user_pos |-> None, chat |-> NoChat, msg |-> 0]

AdvIdle == [start |-> EmptyArray, queue |-> EmptyArray, count |-> 0]

\* ---------------------------------------------------------------- Init
\* no session open, no job stored, no handler between its awaits
Quiet ==
    /\ fsm = [u \in Users |-> IdleFsm]
    /\ jobs = {}
    /\ running = {}
    /\ buttons = {}
    /\ swapping = [u \in Users |-> IdleSwap]
    /\ msg_seq = 0
    /\ swapsApplied = [m \in 1..MaxOps |-> 0]
    /\ skipNotices = [m \in 1..MaxOps |-> 0]
    /\ ops = 0
    /\ out = Silent
    /\ boots = <<>>

\* team 1 with one queue of one to three members and the turn on any of
\* them, in a group chat or not yet
Init ==
    /\ \E ids \in {<<1>>, <<1, 2>>, <<1, 2, 3>>} : \E ct \in 0..(Len(ids) - 1) :
          queues = [t \in TeamIds |->
                       IF t = 1 THEN (DishesQueue :> MkQueue(ids, ct))
                       ELSE <<>>]
    /\ \E c \in {NoChat, GroupChatOf(1)} :
          teams = [t \in TeamIds |-> IF t = 1 THEN c ELSE GroupChatOf(t)]
    /\ Quiet
    /\ adv = AdvIdle

\* team 1 with two queues, and team 4 with a queue of the same name as one
\* of them, each team in its group chat
TwoTeamsInit ==
    /\ queues = [t \in TeamIds |->
                    IF t = 1
                    THEN (DishesQueue :> MkQueue(<<1, 2>>, 0))
                         @@ (TrashQueue :> MkQueue(<<2>>, 0))
                    ELSE (DishesQueue :> MkQueue(<<4>>, 0))]
    /\ teams = [t \in TeamIds |-> GroupChatOf(t)]
    /\ Quiet
    /\ adv = AdvIdle

\* ------------------------------------------------- scheduler job store
ChatStr(c) == CASE c = NoChat -> "None" [] c = GroupChatOf(1) -> "-11" [] c = GroupChatOf(4) -> "-14"

\* a slip that leaves the queue name out of the job id
job_id_without_queue(queue_name, group_chat_id) ==
    <<"resolving", ChatStr(group_chat_id)>>

\* f"resolving_{queue_name}_{group_chat_id}"
JobId(queue_name, group_chat_id) ==
    <<"resolving">> \o queue_name \o <<ChatStr(group_chat_id)>>

\* a job kept in the scheduler's default (memory) job store
job_store_default == "default"

\* line 134: jobstore="mongo"
JobStore == "mongo"

\* a job store that keeps the job already stored under the id
add_job_keeping_existing(store, job) == store \cup {job}

\* sched.add_job(..., id=..., replace_existing=True)
add_job(store, job) == {j \in store : j.id # job.id} \cup {job}

\* sched.remove_job(job_id=...) on a store that has the id
remove_job(store, job_id) == {j \in store : j.id # job_id}

\* sched.remove_job raises JobLookupError when no job has the id
JobLookupError(store, job_id) == \A j \in store : j.id # job_id

\* ------------------------------------------------------- environment
\* the bot is added to the team's group: the team gets its group chat
add_to_group(t) ==
    /\ teams[t] = NoChat
    /\ teams' = [teams EXCEPT ![t] = GroupChatOf(t)]
    /\ out' = Silent
    /\ UNCHANGED <<queues, fsm, jobs, running, buttons, swapping, msg_seq,
                   swapsApplied, skipNotices, ops, boots, adv>>

\* the opt-out button "ask_why_<queue>" is offered to the member whose turn it is
OptOutOffered(user_id, queue_name) ==
    /\ HasQueue(get_team_id(user_id), queue_name)
    /\ LET q == get_queue_array(get_team_id(user_id), queue_name)
       IN  get_current_turn(q) # None /\ q[get_current_turn(q)].user_id = user_id

\* ------------------------------------------------- resolve_conflict.py
\* a slip that arms the timer as soon as the member declares inability
ask_for_reason_arming(u, name) ==
    /\ fsm[u].state = "none"
    /\ ops < MaxOps
    /\ OptOutOffered(u, name)
    /\ LET data == <<"ask", "why">> \o name
           queue_name == <<Last(data)>>
       IN  /\ fsm' = [fsm EXCEPT ![u] = [IdleFsm EXCEPT !.state = "waiting_for_reason",
                                                        !.queue_name = queue_name]]
           /\ jobs' = add_job(jobs, [id |-> JobId(queue_name, get_team_chat(u)),
                                     group_chat_id |-> get_team_chat(u),
                                     user_name |-> u, queue_name |-> queue_name,
                                     run_date |-> msg_seq + 1,
                                     jobstore |-> JobStore,
                                     misfire_grace_time |-> None])
    /\ out' = Silent
    /\ UNCHANGED <<queues, teams, running, buttons, swapping, msg_seq,
                   swapsApplied, skipNotices, ops, boots, adv>>

ask_for_reason(u, name) ==
    /\ fsm[u].state = "none"
    /\ ops < MaxOps
    /\ OptOutOffered(u, name)
    /\ LET data == <<"ask", "why">> \o name
           queue_name == <<Last(data)>>
       IN  fsm' = [fsm EXCEPT ![u] = [IdleFsm EXCEPT !.state = "waiting_for_reason",
                                                     !.queue_name = queue_name]]
    /\ out' = Silent
    /\ UNCHANGED <<queues, teams, jobs, running, buttons, swapping, msg_seq,
                   swapsApplied, skipNotices, ops, boots, adv>>

\* a slip that escalates whatever get_team_chat returned
has_group_chat_unchecked(group_chat_id) == TRUE

\* line 113: the team has a group chat
HasGroupChat(group_chat_id) == group_chat_id # NoChat

inform_and_resolve(u) ==
    /\ fsm[u].state = "waiting_for_reason"
    /\ ops < MaxOps
    /\ ops' = ops + 1
    /\ LET user_name == u
           group_chat_id == get_team_chat(u)
           team_id == get_team_id(u)
           queue_name == fsm[u].queue_name
           job == [id |-> JobId(queue_name, group_chat_id),
                   group_chat_id |-> group_chat_id, user_name |-> user_name,
                   queue_name |-> queue_name, run_date |-> msg_seq + 1,
                   jobstore |-> JobStore, misfire_grace_time |-> None]
           button == [msg |-> msg_seq + 1, chat |-> group_chat_id,
                      user_name |-> user_name,
                      data |-> <<"swap">> \o queue_name \o <<IntStr(team_id)>>]
       IN  IF ~HasGroupChat(group_chat_id)
           THEN /\ out' = Say("no_group_chat", u)
                /\ UNCHANGED <<queues, teams, fsm, jobs, running, buttons, swapping,
                               msg_seq, swapsApplied, skipNotices, boots, adv>>
           ELSE /\ jobs' = add_job(jobs, job)
                /\ buttons' = buttons \cup {button}
                /\ msg_seq' = msg_seq + 1
                /\ fsm' = [fsm EXCEPT ![u] = IdleFsm]
                /\ out' = Silent
                /\ UNCHANGED <<queues, teams, running, swapping, swapsApplied,
                               skipNotices, boots, adv>>

\* a scheduler that submits the job and keeps it in the store
fire_job_keeping(j) ==
    /\ j \in jobs
    /\ running' = running \cup {j}
    /\ out' = Silent
    /\ UNCHANGED <<queues, teams, fsm, jobs, buttons, swapping, msg_seq,
                   swapsApplied, skipNotices, ops, boots, adv>>

\* the date trigger comes due: the scheduler submits the job and drops it
\* from the job store
fire_job(j) ==
    /\ j \in jobs
    /\ jobs' = jobs \ {j}
    /\ running' = running \cup {j}
    /\ out' = Silent
    /\ UNCHANGED <<queues, teams, fsm, buttons, swapping, msg_seq, swapsApplied,
                   skipNotices, ops, boots, adv>>

\* the process stops and starts again.  Handlers between their awaits are
\* gone.  The scheduler loads the jobs of its persistent store; of those whose
\* run date passed meanwhile it submits the ones with no misfire limit
\* (misfire_grace_time=None) and drops the others.
restart ==
    /\ ops < MaxOps
    /\ ops' = ops + 1
    /\ LET persisted == {j \in jobs : j.jobstore = "mongo"}
       IN  \E due \in SUBSET persisted :
              /\ jobs' = persisted \ due
              /\ running' = running \cup {j \in due : j.misfire_grace_time = None}
              /\ boots' = Append(boots, [armed |-> {j.run_date : j \in jobs},
                                         due |-> {j.run_date : j \in due}])
    /\ swapping' = [u \in Users |-> IdleSwap]
    /\ out' = Silent
    /\ UNCHANGED <<queues, teams, fsm, buttons, msg_seq, swapsApplied, skipNotices,
                   adv>>

\* a fallback that also passes the turn on
skip_chore_today_advancing(j) ==
    /\ j \in running
    /\ running' = running \ {j}
    /\ skipNotices' = [skipNotices EXCEPT ![j.run_date] = @ + 1]
    /\ out' = Silent
    /\ queues' = [t \in DOMAIN queues |->
                    [n \in DOMAIN queues[t] |->
                        IF n = j.queue_name /\ teams[t] = j.group_chat_id
                        THEN reassign_current_turn(queues[t][n],
                                                   get_current_turn(queues[t][n]))
                        ELSE queues[t][n]]]
    /\ UNCHANGED <<teams, fsm, jobs, buttons, swapping, msg_seq, swapsApplied, ops, boots, adv>>

\* a fallback that ends without telling the group
skip_chore_today_silent(j) ==
    /\ j \in running
    /\ running' = running \ {j}
    /\ out' = Silent
    /\ UNCHANGED <<queues, teams, fsm, jobs, buttons, swapping, msg_seq,
                   swapsApplied, skipNotices, ops, boots, adv>>

skip_chore_today(j) ==
    /\ j \in running
    /\ running' = running \ {j}
    /\ skipNotices' = [skipNotices EXCEPT ![j.run_date] = @ + 1]
    /\ out' = Silent
    /\ UNCHANGED <<queues, teams, fsm, jobs, buttons, swapping, msg_seq,
                   swapsApplied, ops, boots, adv>>

\* a slip that lets the turn holder through
verdict_without_self_check(ct_pos, user_pos) ==
    IF user_pos = None THEN "not_member" ELSE "ok"

\* lines 182-198: who may substitute
Verdict(ct_pos, user_pos) ==
    IF user_pos = None THEN "not_member"
    ELSE IF ct_pos = user_pos THEN "self_swap"
    ELSE "ok"

\* swap_users up to its write: parse the payload, read, validate
swap_users_read(u, b) ==
    /\ b \in buttons
    /\ swapping[u].pc = "idle"
    /\ ops < MaxOps
    /\ ops' = ops + 1
    /\ LET data == b.data
           queue_name == <<data[2]>>
           group_chat_id == get_team_chat(u)
       IN  IF ~IsIntStr(Last(data)) \/ ~HasQueue(StrInt(Last(data)), queue_name)
           THEN /\ out' = Say("error", u)
                /\ UNCHANGED swapping
           ELSE LET team_id == StrInt(Last(data))
                    q_array == get_queue_array(team_id, queue_name)
                    ct_pos == get_current_turn(q_array)
                    user_pos == FindUserPos(q_array, u)
                IN  IF ct_pos = None
                    THEN /\ out' = Say("error", u)
                         /\ UNCHANGED swapping
                    ELSE IF Verdict(ct_pos, user_pos) # "ok"
                    THEN /\ out' = Say(Verdict(ct_pos, user_pos), u)
                         /\ UNCHANGED swapping
                    ELSE /\ swapping' = [swapping EXCEPT ![u] =
                                [pc |-> "write", team_id |-> team_id,
                                 queue_name |-> queue_name, q_array |-> q_array,
                                 ct_pos |-> ct_pos, user_pos |-> user_pos,
                                 chat |-> group_chat_id, msg |-> b.msg]]
                         /\ out' = Silent
    /\ UNCHANGED <<queues, teams, fsm, jobs, running, buttons, msg_seq,
                   swapsApplied, skipNotices, boots, adv>>

\* lines 206-207: the write of the swapped array
swap_users_write(u) ==
    /\ swapping[u].pc = "write"
    /\ LET s == swapping[u]
       IN  /\ queues' = UpdateOne(queues, s.team_id, s.queue_name,
                                  swapped_array(s.q_array, s.ct_pos, s.user_pos))
           /\ swapsApplied' = [swapsApplied EXCEPT ![s.msg] = @ + 1]
    /\ swapping' = [swapping EXCEPT ![u].pc = "written"]
    /\ out' = Silent
    /\ UNCHANGED <<teams, fsm, jobs, running, buttons, msg_seq, skipNotices, ops, boots, adv>>

\* a handler that lets the JobLookupError through: it ends at remove_job, the
\* button stays and the responder gets the error
swap_users_finish_raising(u) ==
    /\ swapping[u].pc = "written"
    /\ LET s == swapping[u]
           mine == {b \in buttons : b.msg = s.msg}
           job_id == JobId(s.queue_name, s.chat)
       IN  IF JobLookupError(jobs, job_id)
           THEN /\ out' = Say("error", u)
                /\ UNCHANGED <<jobs, buttons>>
           ELSE /\ jobs' = remove_job(jobs, job_id)
                /\ buttons' = buttons \ mine
                /\ out' = Silent
    /\ swapping' = [swapping EXCEPT ![u] = IdleSwap]
    /\ UNCHANGED <<queues, teams, fsm, running, msg_seq, swapsApplied, skipNotices, ops, boots, adv>>

\* lines 211-228: remove the job (a JobLookupError is caught and logged), drop
\* the button, thank the substitute
swap_users_finish(u) ==
    /\ swapping[u].pc = "written"
    /\ LET s == swapping[u]
           mine == {b \in buttons : b.msg = s.msg}
           job_id == JobId(s.queue_name, s.chat)
       IN  /\ jobs' = IF JobLookupError(jobs, job_id) THEN jobs
                       ELSE remove_job(jobs, job_id)
           /\ buttons' = buttons \ mine
           /\ out' = Silent
    /\ swapping' = [swapping EXCEPT ![u] = IdleSwap]
    /\ UNCHANGED <<queues, teams, fsm, running, msg_seq, swapsApplied, skipNotices, ops, boots, adv>>

\* --------------------------------------------------- reorder_queue.py
\* the admin opens the queue for modification: the session takes the stored array
begin_setup(u, name) ==
    /\ fsm[u].state = "none"
    /\ ops < MaxOps
    /\ u = get_team_id(u)
    /\ HasQueue(u, name)
    /\ fsm' = [fsm EXCEPT ![u] = [state |-> "setting_up", queue_name |-> name,
                                  queue_array |-> get_queue_array(u, name),
                                  from_position |-> None]]
    /\ out' = Silent
    /\ UNCHANGED <<queues, teams, jobs, running, buttons, swapping, msg_seq,
                   swapsApplied, skipNotices, ops, boots, adv>>

ask_to_pick(u) ==
    /\ fsm[u].state = "setting_up"
    /\ out' = Silent
    /\ UNCHANGED <<queues, teams, fsm, jobs, running, buttons, swapping, msg_seq,
                   swapsApplied, skipNotices, ops, boots, adv>>

ask_to_position(u, from_position) ==
    /\ fsm[u].state = "setting_up"
    /\ ops < MaxOps
    /\ from_position \in DOMAIN fsm[u].queue_array
    /\ fsm' = [fsm EXCEPT ![u].from_position = from_position]
    /\ out' = Silent
    /\ UNCHANGED <<queues, teams, jobs, running, buttons, swapping, msg_seq,
                   swapsApplied, skipNotices, ops, boots, adv>>

\* list.pop(i)
Pop(q_array, i) ==
    [k \in 0..(Len0(q_array) - 2) |-> IF k < i THEN q_array[k] ELSE q_array[k + 1]]

\* list.insert(i, item), i within the list
Insert(q_array, i, item) ==
    [k \in 0..Len0(q_array) |->
        IF k < i THEN q_array[k] ELSE IF k = i THEN item ELSE q_array[k - 1]]

\* a slip that exchanges the two positions instead of moving the member
moved_array_exchanging(queue_array, from_position, to_position) ==
    [queue_array EXCEPT ![from_position] = queue_array[to_position],
                        ![to_position] = queue_array[from_position]]

\* lines 97-98
moved_array(queue_array, from_position, to_position) ==
    Insert(Pop(queue_array, from_position), to_position, queue_array[from_position])

\* a slip that reorders whatever the two positions are
same_position_unchecked(from_position, to_position) == FALSE

\* line 89: reordering doesnt make any sense
same_position(from_position, to_position) == from_position = to_position

reorder_queue(u, to_position) ==
    /\ fsm[u].state = "setting_up"
    /\ fsm[u].from_position # None
    /\ to_position \in DOMAIN fsm[u].queue_array
    /\ ops < MaxOps
    /\ ops' = ops + 1
    /\ LET from_position == fsm[u].from_position
           queue_array == fsm[u].queue_array
           queue_name == fsm[u].queue_name
       IN  IF same_position(from_position, to_position)
           THEN /\ out' = Say("noop_reorder", u)
                /\ UNCHANGED <<queues, fsm>>
           ELSE LET moved == moved_array(queue_array, from_position, to_position)
                IN  /\ fsm' = [fsm EXCEPT ![u].queue_array = moved]
                    /\ queues' = UpdateOne(queues, get_team_id(u), queue_name, moved)
                    /\ out' = Silent
    /\ UNCHANGED <<teams, jobs, running, buttons, swapping, msg_seq, swapsApplied,
                   skipNotices, boots, adv>>

\* "Done": the setup session ends
order_ready(u) ==
    /\ fsm[u].state = "setting_up"
    /\ fsm' = [fsm EXCEPT ![u] = IdleFsm]
    /\ out' = Silent
    /\ UNCHANGED <<queues, teams, jobs, running, buttons, swapping, msg_seq,
                   swapsApplied, skipNotices, ops, boots, adv>>

\* ----------------------------------------------------------------- Next
QueueNames == {DishesQueue, TrashQueue, DryDishes}

Next ==
    \/ \E t \in TeamIds : add_to_group(t)
    \/ \E u \in Users, name \in QueueNames : ask_for_reason(u, name)
    \/ \E u \in Users : inform_and_resolve(u)
    \/ \E j \in jobs : fire_job(j)
    \/ restart
    \/ \E j \in running : skip_chore_today(j)
    \/ \E u \in Users, b \in buttons : swap_users_read(u, b)
    \/ \E u \in Users : swap_users_write(u)
    \/ \E u \in Users : swap_users_finish(u)
    \/ \E u \in Users, name \in QueueNames : begin_setup(u, name)
    \/ \E u \in Users : ask_to_pick(u)
    \/ \E u \in Users, i \in 0..2 : ask_to_position(u, i)
    \/ \E u \in Users, i \in 0..2 : reorder_queue(u, i)
    \/ \E u \in Users : order_ready(u)

Spec == Init /\ [][Next]_vars

\* the same handlers on two teams and two queues of one team
TwoTeamsNext ==
    \/ \E u \in Users, name \in QueueNames : ask_for_reason(u, name)
    \/ \E u \in Users : inform_and_resolve(u)
    \/ \E j \in jobs : fire_job(j)
    \/ \E j \in running : skip_chore_today(j)
    \/ \E u \in Users, b \in buttons : swap_users_read(u, b)
    \/ \E u \in Users : swap_users_write(u)
    \/ \E u \in Users : swap_users_finish(u)
    \/ \E u \in Users, name \in QueueNames : begin_setup(u, name)
    \/ \E u \in Users, i \in 0..2 : ask_to_position(u, i)
    \/ \E u \in Users, i \in 0..2 : reorder_queue(u, i)

TwoTeamsSpec == TwoTeamsInit /\ [][TwoTeamsNext]_vars

\* ------------------------------------------- turn advancement on its own
\* the orders the advancement is tried on, each with the turn on any member
AdvOrders ==
    {<<1>>, <<1, 2>>, <<2, 1>>, <<1, 2, 3>>, <<3, 1, 2>>, <<1, 2, 3, 4>>, <<4, 3, 2, 1>>}

AdvInit ==
    /\ queues = [t \in TeamIds |-> <<>>]
    /\ teams = [t \in TeamIds |-> GroupChatOf(t)]
    /\ Quiet
    /\ \E ids \in AdvOrders : \E ct \in 0..(Len(ids) - 1) :
          adv = [start |-> MkQueue(ids, ct), queue |-> MkQueue(ids, ct), count |-> 0]

\* lines 200-202 applied to the array as it stands
advance ==
    /\ adv.count < MaxAdvances
    /\ adv' = [adv EXCEPT
                  !.queue = reassign_current_turn(@, get_current_turn(@)),
                  !.count = @ + 1]
    /\ UNCHANGED <<queues, teams, fsm, jobs, running, buttons, swapping, msg_seq,
                   swapsApplied, skipNotices, ops, out, boots>>

AdvNext == advance

AdvSpec == AdvInit /\ [][AdvNext]_vars

\* ------------------------------------------- the handlers of the timer
TimerNext ==
    \/ \E t \in TeamIds : add_to_group(t)
    \/ \E u \in Users, name \in QueueNames : ask_for_reason(u, name)
    \/ \E u \in Users : inform_and_resolve(u)
    \/ \E j \in jobs : fire_job(j)
    \/ restart
    \/ \E j \in running : skip_chore_today(j)
    \/ \E u \in Users, b \in buttons : swap_users_read(u, b)
    \/ \E u \in Users : swap_users_write(u)
    \/ \E u \in Users : swap_users_finish(u)

\* the scheduler runs every job whose run date has come, and a submitted
\* skip_chore_today runs to its end
FairSpec ==
    /\ Init /\ [][TimerNext]_vars
    /\ \A m \in 1..MaxOps :
          /\ WF_vars(\E j \in jobs : j.run_date = m /\ fire_job(j))
          /\ WF_vars(\E j \in running : j.run_date = m /\ skip_chore_today(j))

\* ------------------------------------- a queue name with the separator
\* team 1 with the queues "dry_dishes" and "dishes", the turn on different
\* members, in a group chat or not yet
UnderscoreInit ==
    /\ queues = [t \in TeamIds |->
                    IF t = 1
                    THEN (DryDishes :> MkQueue(<<1, 2>>, 0))
                         @@ (DishesQueue :> MkQueue(<<2, 1>>, 0))
                    ELSE <<>>]
    /\ \E c \in {NoChat, GroupChatOf(1)} :
          teams = [t \in TeamIds |-> IF t = 1 THEN c ELSE GroupChatOf(t)]
    /\ Quiet
    /\ adv = AdvIdle

UnderscoreSpec == UnderscoreInit /\ [][TimerNext]_vars

\* ------------------------------------- handlers whose Telegram call raises
\* No handler of resolve_conflict.py wraps its sends: a call that raises ends
\* the handler where it stands.
\* inform_and_resolve, lines 129-159: add_job has run when message.answer
\* (line 147) or send_message (line 151) raises; the group gets no button and
\* state.finish() (line 159) is not reached
inform_and_resolve_send_fails(u) ==
    /\ fsm[u].state = "waiting_for_reason"
    /\ ops < MaxOps
    /\ ops' = ops + 1
    /\ LET group_chat_id == get_team_chat(u)
           queue_name == fsm[u].queue_name
           job == [id |-> JobId(queue_name, group_chat_id),
                   group_chat_id |-> group_chat_id, user_name |-> u,
                   queue_name |-> queue_name, run_date |-> msg_seq + 1,
                   jobstore |-> JobStore, misfire_grace_time |-> None]
       IN  /\ HasGroupChat(group_chat_id)
           /\ jobs' = add_job(jobs, job)
    /\ msg_seq' = msg_seq + 1
    /\ out' = Say("send_failed", u)
    /\ UNCHANGED <<queues, teams, fsm, running, buttons, swapping, swapsApplied,
                   skipNotices, boots, adv>>

\* swap_users, lines 211-228: the array is written and the job removed when
\* delete_reply_markup (line 219) raises; the button stays
swap_users_markup_fails(u) ==
    /\ swapping[u].pc = "written"
    /\ LET s == swapping[u]
           job_id == JobId(s.queue_name, s.chat)
       IN  jobs' = IF JobLookupError(jobs, job_id) THEN jobs
                   ELSE remove_job(jobs, job_id)
    /\ swapping' = [swapping EXCEPT ![u] = IdleSwap]
    /\ out' = Say("send_failed", u)
    /\ UNCHANGED <<queues, teams, fsm, running, buttons, msg_seq, swapsApplied,
                   skipNotices, ops, boots, adv>>

\* skip_chore_today, lines 65-71: send_sticker or send_message raises; the
\* job is gone from the store and the group gets no notice
skip_chore_today_send_fails(j) ==
    /\ j \in running
    /\ running' = running \ {j}
    /\ out' = Say("send_failed", j.user_name)
    /\ UNCHANGED <<queues, teams, fsm, jobs, buttons, swapping, msg_seq,
                   swapsApplied, skipNotices, ops, boots, adv>>

FailNext ==
    \/ \E t \in TeamIds : add_to_group(t)
    \/ \E u \in Users, name \in QueueNames : ask_for_reason(u, name)
    \/ \E u \in Users : inform_and_resolve(u)
    \/ \E u \in Users : inform_and_resolve_send_fails(u)
    \/ \E j \in jobs : fire_job(j)
    \/ \E j \in running : skip_chore_today(j)
    \/ \E j \in running : skip_chore_today_send_fails(j)
    \/ \E u \in Users, b \in buttons : swap_users_read(u, b)
    \/ \E u \in Users : swap_users_write(u)
    \/ \E u \in Users : swap_users_finish(u)
    \/ \E u \in Users : swap_users_markup_fails(u)

FailSpec == Init /\ [][FailNext]_vars

\* ================================================================ claims
RECURSIVE SumUpTo(_, _)
SumUpTo(f, n) == IF n = 0 THEN 0 ELSE f[n] + SumUpTo(f, n - 1)

TotalSwaps == SumUpTo(swapsApplied, MaxOps)

TotalSkips == SumUpTo(skipNotices, MaxOps)

Rejections == {"not_member", "self_swap"}

\* the step in which u's swap_users writes the swapped array
Writes(u) == swapping[u].pc = "write" /\ swapping'[u].pc = "written"

\* the step in which u's press is accepted
Accepted(u) == swapping[u].pc = "idle" /\ swapping'[u].pc = "write"

UserIds(q) == {q[k].user_id : k \in DOMAIN q}

\* C1: every stored queue has exactly one member with current_turn = true,
\* whatever the interleaving of swap_users, reorder_queue and skip_chore_today.
C1_ExactlyOneTurnHolder ==
    \A t \in DOMAIN queues : \A n \in DOMAIN queues[t] :
        Cardinality(Holders(queues[t][n])) = 1

Order(q) == [k \in 1..Len0(q) |-> q[k - 1].user_id]

\* a swap, a reorder and a timeout fallback have all acted on the queue:
\* one swap was written, one skip notice sent, and the order is one that a
\* single swap does not produce from <<1, 2, 3>>
C1_Witness ==
    /\ TotalSwaps = 1 /\ TotalSkips = 1
    /\ Order(queues[1][DishesQueue]) \in {<<2, 3, 1>>, <<3, 1, 2>>}

\* C2: the write of a substitution stores the holder (index i) and the
\* substitute (index j) exchanged, with the turn marker on the member at
\* index (i+1) mod N of the stored sequence.
C2_TurnAfterOriginalSlot ==
    [][\A u \in Users : Writes(u) =>
          LET s == swapping[u]
              q == s.q_array
              i == s.ct_pos
              j == s.user_pos
              q2 == queues'[s.team_id][s.queue_name]
          IN  /\ q2[i].user_id = q[j].user_id
              /\ q2[j].user_id = q[i].user_id
              /\ Holders(q2) = {(i + 1) % Len0(q)}]_vars

\* C3: at most one swap is ever applied for one escalated conflict.
C3_AtMostOneSwapPerConflict ==
    \A m \in DOMAIN swapsApplied : swapsApplied[m] <= 1

\* C4: a step of the timeout fallback (the job coming due, the skip notice)
\* leaves the stored queues as they were: same order, same turn holder.
C4_TimeoutLeavesQueue ==
    [][(skipNotices' # skipNotices \/ running' # running) => queues' = queues]_vars

\* the skip notice went out with no substitution and the queue is as it began
C4_Witness ==
    /\ msg_seq = 1 /\ ops = 1 /\ skipNotices[1] = 1
    /\ \E ct \in 0..2 : queues[1][DishesQueue] = MkQueue(<<1, 2, 3>>, ct)
    /\ running = {} /\ jobs = {}

\* C5: the write of a substitution stores the array it read with the holder
\* and the substitute exchanged, every other member at its index, the same
\* members each once, and the turn marker on a member other than the
\* original holder.
C5_SubstitutionFrame ==
    [][\A u \in Users : Writes(u) =>
          LET s == swapping[u]
              q == s.q_array
              i == s.ct_pos
              j == s.user_pos
              q2 == queues'[s.team_id][s.queue_name]
          IN  /\ DOMAIN q2 = DOMAIN q
              /\ q2[i].user_id = q[j].user_id
              /\ q2[j].user_id = q[i].user_id
              /\ \A k \in DOMAIN q \ {i, j} : q2[k].user_id = q[k].user_id
              /\ UserIds(q2) = UserIds(q)
              /\ Cardinality(UserIds(q2)) = Len0(q2)
              /\ Holders(q2) # {}
              /\ \A k \in Holders(q2) : q2[k].user_id # q[i].user_id
              /\ \A t \in DOMAIN queues : \A n \in DOMAIN queues[t] :
                    <<t, n>> # <<s.team_id, s.queue_name>>
                        => queues'[t][n] = queues[t][n]]_vars

\* a substitution has been written and changed the stored queue
C5_Witness ==
    \E u \in Users :
        /\ swapping[u].pc = "written"
        /\ queues[swapping[u].team_id][swapping[u].queue_name] # swapping[u].q_array

\* C6: a press by a non-member or by the turn holder is rejected and changes
\* neither the queue nor the timer nor the open call; only members who do not
\* hold the turn are accepted; and after a rejection a member who does not
\* hold the turn is still accepted.
C6_InvalidAttemptRejected ==
    /\ [][/\ out'.kind \in Rejections =>
               /\ buttons # {}
               /\ UNCHANGED <<queues, teams, fsm, jobs, running, buttons, swapping,
                              msg_seq, swapsApplied, skipNotices>>
          /\ \A u \in Users : Accepted(u) =>
               LET s == swapping'[u]
               IN  /\ s.user_pos \in DOMAIN s.q_array
                   /\ s.q_array[s.user_pos].user_id = u
                   /\ ~s.q_array[s.user_pos].current_turn]_vars
    /\ [](\A b \in buttons : \A v \in Users :
            (/\ out.kind \in Rejections
             /\ ops < MaxOps
             /\ swapping[v].pc = "idle"
             /\ HasQueue(StrInt(Last(b.data)), <<b.data[2]>>)
             /\ LET q == get_queue_array(StrInt(Last(b.data)), <<b.data[2]>>)
                IN  \E k \in DOMAIN q : q[k].user_id = v /\ ~q[k].current_turn)
            => ENABLED (swap_users_read(v, b) /\ swapping'[v].pc = "write"))

\* the turn holder was rejected while the timer is armed and the call open
C6_Witness ==
    /\ out.kind = "self_swap"
    /\ jobs # {}
    /\ buttons # {}

\* C7: with no group chat, the reason does not escalate: no job, no
\* broadcast, no queue change, the sender stays in waiting_for_reason; and a
\* sender waiting with a group chat can escalate.
C7_NoChannelNoEscalation ==
    /\ [](/\ \A b \in buttons : b.chat # NoChat
          /\ \A j \in jobs \cup running : j.group_chat_id # NoChat)
    /\ [][out'.kind = "no_group_chat" =>
            /\ get_team_chat(out'.user) = NoChat
            /\ fsm'[out'.user].state = "waiting_for_reason"
            /\ UNCHANGED <<queues, teams, fsm, jobs, running, buttons, swapping,
                           msg_seq, swapsApplied, skipNotices>>]_vars
    /\ [](\A u \in Users :
            (fsm[u].state = "waiting_for_reason" /\ get_team_chat(u) # NoChat
             /\ ops < MaxOps)
            => ENABLED (inform_and_resolve(u) /\ msg_seq' = msg_seq + 1))

\* the reason was refused for want of a group chat
C7_Witness ==
    /\ out.kind = "no_group_chat"
    /\ fsm[out.user].state = "waiting_for_reason"
    /\ jobs = {} /\ buttons = {} /\ msg_seq = 0

SameKey(j1, j2) ==
    j1.group_chat_id = j2.group_chat_id /\ j1.queue_name = j2.queue_name

\* C8: the job store holds at most one job per (group chat, queue name), and
\* an escalation leaves exactly its own job under its key.
C8_OneTimerPerKey ==
    /\ [](\A j1, j2 \in jobs : SameKey(j1, j2) => j1 = j2)
    /\ [][msg_seq' # msg_seq =>
            \E new \in jobs' :
                /\ new.run_date = msg_seq'
                /\ \A j \in jobs' : SameKey(j, new) => j = new
                /\ jobs' \ {new} \subseteq jobs]_vars

\* a second escalation replaced the live job of the first
C8_Witness ==
    /\ msg_seq = 2 /\ ops = 2
    /\ running = {} /\ TotalSkips = 0
    /\ \E j \in jobs : jobs = {j} /\ j.run_date = 2

\* C9: no two calls for a substitute are open for the same queue of the
\* same team.
C9_OneOpenCallPerKey ==
    \A b1, b2 \in buttons : (b1.chat = b2.chat /\ b1.data = b2.data) => b1 = b2

\* C10: once a substitution has been written for a conflict, no skip notice
\* is broadcast for that conflict.
C10_NoSkipAfterSubstitution ==
    [][\A m \in DOMAIN swapsApplied :
          swapsApplied[m] > 0 => skipNotices'[m] = skipNotices[m]]_vars

\* the step in which u's swap_users returns from its last awaits
Finishes(u) ==
    swapping[u].pc = "written" /\ swapping'[u].pc = "idle" /\ boots' = boots

\* C11: a valid substitution whose timer is gone (the fallback has fired) is
\* still accepted, written and brought to its end: the press of a member who
\* does not hold the turn is accepted with no job left for the call, the
\* written swap stays stored, the button is dropped and the responder is
\* never answered with an error.
C11_MissingTimerTolerated ==
    /\ [][\A u \in Users : Finishes(u) =>
             /\ out'.kind # "error"
             /\ swapsApplied[swapping[u].msg] >= 1
             /\ queues' = queues
             /\ \A b \in buttons' : b.msg # swapping[u].msg]_vars
    /\ [](\A u \in Users : swapping[u].pc = "written" =>
             ENABLED (swap_users_finish(u) /\ out'.kind # "error"))
    /\ [](\A b \in buttons : \A v \in Users :
            (/\ \A j \in jobs \cup running : j.run_date # b.msg
             /\ ops < MaxOps
             /\ swapping[v].pc = "idle"
             /\ HasQueue(StrInt(Last(b.data)), <<b.data[2]>>)
             /\ LET q == get_queue_array(StrInt(Last(b.data)), <<b.data[2]>>)
                IN  /\ Holders(q) # {}
                    /\ \E k \in DOMAIN q : q[k].user_id = v /\ ~q[k].current_turn)
            => ENABLED (swap_users_read(v, b) /\ swapping'[v].pc = "write"))

\* the skip notice of the only conflict went out, and a substitution for it
\* was written and finished with its job no longer in the store
C11_Witness ==
    /\ msg_seq = 1
    /\ skipNotices[1] = 1 /\ swapsApplied[1] = 1
    /\ \A u \in Users : swapping[u].pc = "idle"
    /\ buttons = {} /\ out = Silent

\* the timer of escalation m is armed or its fallback is under way
Armed(m) == \E j \in jobs \cup running : j.run_date = m

\* C12: the skip notice of an escalation goes out at most once, and only by
\* its timer coming due; an armed timer leaves the job store only by coming
\* due, by an escalation re-arming the same key, or by a substitution
\* finishing on the same key; a timer that came due sends its notice once;
\* and every armed timer does leave.  So a conflict with no substitution,
\* escalated once or again before the deadline, gets exactly one notice.
C12_SkipNoticeExactlyOnce ==
    /\ [](\A m \in DOMAIN skipNotices : skipNotices[m] <= 1)
    /\ [][/\ \A j \in jobs \ jobs' :
               \/ j \in running'
               \/ \E new \in jobs' : /\ new.id = j.id
                                      /\ msg_seq' = msg_seq + 1
                                      /\ new.run_date = msg_seq'
               \/ \E u \in Users :
                     /\ Finishes(u)
                     /\ JobId(swapping[u].queue_name, swapping[u].chat) = j.id
          /\ \A j \in running \ running' :
               skipNotices'[j.run_date] = skipNotices[j.run_date] + 1
          /\ \A m \in DOMAIN skipNotices : skipNotices'[m] # skipNotices[m] =>
               \E j \in running \ running' : j.run_date = m]_vars
    /\ \A m \in 1..MaxOps : Armed(m) ~> ~Armed(m)

\* the initiator escalated twice before the deadline and nobody substituted:
\* the second timer came due and its notice went out, the first sent none
C12_Witness ==
    /\ msg_seq = 2 /\ TotalSwaps = 0 /\ boots = <<>>
    /\ skipNotices[1] = 0 /\ skipNotices[2] = 1
    /\ jobs = {} /\ running = {}

\* C13: at a restart every timer found armed is either still armed after it
\* (its run date has not passed) or has its fallback submitted (its run date
\* passed while the process was down); none is dropped.
C13_TimersSurviveRestart ==
    [][boots' # boots =>
          LET b == boots'[Len(boots')]
          IN  \A j \in jobs :
                 /\ j.run_date \in b.armed
                 /\ j.run_date \notin b.due => j \in jobs' /\ j \notin running'
                 /\ j.run_date \in b.due => j \in running' /\ j \notin jobs']_vars

\* one restart found the timer armed and not yet due and left it armed, a
\* later one found it overdue, and its skip notice has gone out
C13_Witness ==
    /\ \E i, k \in DOMAIN boots :
          /\ boots[i].armed = {1} /\ boots[i].due = {}
          /\ boots[k].armed = {1} /\ boots[k].due = {1}
    /\ skipNotices[1] = 1
    /\ jobs = {} /\ running = {}

\* the step in which u's reorder_queue writes the moved array
ReorderWrites(u) ==
    /\ fsm[u].state = "setting_up"
    /\ fsm'[u].state = "setting_up"
    /\ fsm'[u].queue_array # fsm[u].queue_array

\* C14: queue mutations of one key are linearizable: no handler writes back
\* a queue it read earlier.  Every write of swap_users and of reorder_queue
\* is computed from the array that is stored at the moment of the write, so
\* the stored queue is the result of the writes applied one after another.
C14_NoStaleWriteBack ==
    [][/\ \A u \in Users : Writes(u) =>
             swapping[u].q_array =
                 queues[swapping[u].team_id][swapping[u].queue_name]
       /\ \A u \in Users : ReorderWrites(u) =>
             fsm[u].queue_array = queues[get_team_id(u)][fsm[u].queue_name]]_vars

\* index of the member uid in q
IndexOf(q, uid) == CHOOSE k \in DOMAIN q : q[k].user_id = uid

\* C15: a reorder with from_position # to_position stores the array the
\* workflow holds with the member at from_position moved to to_position: the
\* same entries, the moved member at to_position, every other pair of members
\* in the order they had, and the turn on the same member.
C15_ReorderMovesMember ==
    [][\A u \in Users : \A t \in 0..2 :
          (reorder_queue(u, t) /\ t # fsm[u].from_position) =>
             LET q == fsm[u].queue_array
                 f == fsm[u].from_position
                 q2 == queues'[get_team_id(u)][fsm[u].queue_name]
             IN  /\ DOMAIN q2 = DOMAIN q
                 /\ q2[t] = q[f]
                 /\ \A k \in DOMAIN q : q2[IndexOf(q2, q[k].user_id)] = q[k]
                 /\ \A a, b \in DOMAIN q \ {f} :
                       a < b => IndexOf(q2, q[a].user_id) < IndexOf(q2, q[b].user_id)
                 /\ {q2[k].user_id : k \in Holders(q2)}
                       = {q[k].user_id : k \in Holders(q)}]_vars

\* with no swap written, the member at index 0 of <<1, 2, 3>> was moved to
\* index 2 and the moved array is the stored one
C15_Witness ==
    /\ TotalSwaps = 0
    /\ fsm[1].state = "setting_up"
    /\ fsm[1].from_position = 0
    /\ Order(fsm[1].queue_array) = <<2, 3, 1>>
    /\ queues[1][DishesQueue] = fsm[1].queue_array

\* C16: a reorder to the position the member already has writes nothing: the
\* stored queues and the array of the workflow stay as they are, and the
\* caller is told so; and the caller can always ask for it.
C16_SamePositionIsNoop ==
    /\ [][/\ \A u \in Users : \A t \in 0..2 :
               (reorder_queue(u, t) /\ t = fsm[u].from_position) =>
                  /\ out' = Say("noop_reorder", u)
                  /\ queues' = queues
                  /\ fsm' = fsm
          /\ out'.kind = "noop_reorder" =>
               UNCHANGED <<queues, teams, fsm, jobs, running, buttons, swapping,
                           msg_seq, swapsApplied, skipNotices>>]_vars
    /\ [](\A u \in Users :
            (/\ fsm[u].state = "setting_up"
             /\ fsm[u].from_position # None
             /\ ops < MaxOps)
            => ENABLED (reorder_queue(u, fsm[u].from_position)
                        /\ out'.kind = "noop_reorder"))

\* the no-op was signalled in a workflow whose array is older than the
\* stored queue: a write would have shown
C16_Witness ==
    /\ out.kind = "noop_reorder"
    /\ fsm[out.user].from_position # None
    /\ queues[1][DishesQueue] # fsm[out.user].queue_array

HolderIds(q) == {q[k].user_id : k \in Holders(q)}

\* C17: turn advancement is cyclic: after N advancements of a queue of N
\* members (and after every multiple of N) the array is the one it started
\* from, and after any other number of advancements the turn is on a member
\* other than the original holder; the order of the members never changes.
C17_AdvanceIsCyclic ==
    LET N == Len0(adv.start)
    IN  N > 0 =>
          /\ Order(adv.queue) = Order(adv.start)
          /\ Cardinality(Holders(adv.queue)) = 1
          /\ adv.count % N = 0 => adv.queue = adv.start
          /\ adv.count % N # 0 => HolderIds(adv.queue) # HolderIds(adv.start)

\* four advancements of a queue of four have brought the turn back
C17_Witness ==
    /\ Len0(adv.start) = 4
    /\ adv.count = 4
    /\ adv.queue = adv.start

\* the step in which u's reason is broadcast and the timer armed
Escalates(u) ==
    /\ fsm[u].state = "waiting_for_reason"
    /\ fsm'[u].state = "none"
    /\ msg_seq' = msg_seq + 1

\* every queue other than queue n of team t is left as it is
OtherQueuesUnchanged(t, n) ==
    /\ DOMAIN queues' = DOMAIN queues
    /\ \A t2 \in DOMAIN queues :
          /\ DOMAIN queues'[t2] = DOMAIN queues[t2]
          /\ \A n2 \in DOMAIN queues[t2] :
                <<t2, n2>> # <<t, n>> => queues'[t2][n2] = queues[t2][n2]

\* every timer other than those of queue n of team t is left in the store
OtherTimersKept(t, n) ==
    \A j \in jobs :
        (j.group_chat_id # teams[t] \/ j.queue_name # n) => j \in jobs'

\* C18: state is isolated per (team, queue).  The write of a substitution
\* and the write of a reorder change the queue of their own key only; an
\* escalation changes no queue and replaces no timer of another key; the end
\* of a substitution changes no queue and cancels no timer of another key; a
\* timer coming due takes no other timer with it, and the fallback changes
\* no queue and no timer.
C18_KeysAreIsolated ==
    [][/\ \A u \in Users : Writes(u) =>
             OtherQueuesUnchanged(swapping[u].team_id, swapping[u].queue_name)
       /\ \A u \in Users : ReorderWrites(u) =>
             OtherQueuesUnchanged(get_team_id(u), fsm[u].queue_name)
       /\ \A u \in Users : Escalates(u) =>
             /\ queues' = queues
             /\ OtherTimersKept(get_team_id(u), fsm[u].queue_name)
       /\ \A u \in Users : Finishes(u) =>
             /\ queues' = queues
             /\ OtherTimersKept(swapping[u].team_id, swapping[u].queue_name)
       /\ running' # running =>
             /\ queues' = queues
             /\ Cardinality(jobs \ jobs') <= 1
             /\ skipNotices' # skipNotices => jobs' = jobs]_vars

\* timers were armed for the dishes and for the trash of team 1; the
\* substitution on the dishes has finished and the timer of the trash is
\* still armed
C18_Witness ==
    /\ msg_seq = 2 /\ TotalSwaps = 1 /\ TotalSkips = 0
    /\ \A u \in Users : swapping[u].pc = "idle"
    /\ running = {}
    /\ \E j \in jobs : jobs = {j} /\ j.queue_name = TrashQueue
    /\ \E b \in buttons : buttons = {b} /\ b.data[2] = "trash"
    /\ queues[1][TrashQueue] = MkQueue(<<2>>, 0)
    /\ queues[4][DishesQueue] = MkQueue(<<4>>, 0)

\* C19: when the fallback of a timer fires, the member its skip notice names
\* (the user_name the job carries) is the member who has current_turn in
\* the stored queue.
C19_SkipNoticeNamesHolder ==
    [][\A j \in running' \ running :
          \A t \in TeamIds :
             (teams[t] = j.group_chat_id /\ HasQueue(t, j.queue_name)) =>
                HolderIds(get_queue_array(t, j.queue_name)) = {j.user_name}]_vars

\* the step in which u declares inability and is asked for the reason
Asks(u) == fsm[u].state = "none" /\ fsm'[u].state = "waiting_for_reason"

\* C20: declaring inability has no effect on the group or the rotation: no
\* timer is armed, nothing is broadcast, no queue changes and no other
\* session changes; the initiator's session records a queue in which the
\* initiator holds the turn and waits for the reason.
C20_ReasonRequestedNoEffect ==
    [][\A u \in Users : Asks(u) =>
          /\ UNCHANGED <<queues, teams, jobs, running, buttons, swapping, msg_seq,
                         swapsApplied, skipNotices>>
          /\ out' = Silent
          /\ \A v \in Users \ {u} : fsm'[v] = fsm[v]
          /\ OptOutOffered(u, fsm'[u].queue_name)
          /\ fsm'[u] = [IdleFsm EXCEPT !.state = "waiting_for_reason",
                                       !.queue_name = fsm'[u].queue_name]]_vars

\* a member has declared inability for the dishes and nothing has been
\* armed or broadcast
C20_Witness ==
    /\ \E u \in Users :
          /\ fsm[u].state = "waiting_for_reason"
          /\ fsm[u].queue_name = DishesQueue
    /\ ops = 0 /\ msg_seq = 0
    /\ jobs = {} /\ running = {} /\ buttons = {}

\* the step in which a handler ends at a Telegram call that raised
SendFails == out'.kind = "send_failed"

\* C21: a notification call that fails does not corrupt the rotation: every
\* stored queue has exactly one turn holder, the step of the failure leaves
\* the stored queues as they were (the queue before the operation or, the
\* write done, the queue after it), and after the failure no button is open
\* for a conflict whose swap has been written, unless another press on it is
\* still being handled.
C21_SendFailureKeepsState ==
    /\ [](\A t \in TeamIds : \A n \in DOMAIN queues[t] :
             Len0(queues[t][n]) > 0 => Cardinality(Holders(queues[t][n])) = 1)
    /\ [][SendFails => queues' = queues]_vars
    /\ [][SendFails =>
            \A b \in buttons' :
               swapsApplied'[b.msg] >= 1 =>
                  \E u \in Users : /\ swapping'[u].pc # "idle"
                                   /\ swapping'[u].msg = b.msg]_vars

\* the timer of escalation m waits in the job store
InJobs(m) == \E j \in jobs : j.run_date = m

\* C22: under fairness of the scheduler every escalated conflict leaves
\* Escalated: once the timer of escalation m is armed, eventually its skip
\* notice has gone out (TimedOut), or the timer is gone and a substitution
\* has been written for the key (Resolved), or the timer is gone because a
\* later escalation of the key replaced it.  No timer stays armed forever.
C22_EscalatedEventuallyLeaves ==
    \A m \in 1..MaxOps :
       InJobs(m) ~>
          \/ skipNotices[m] = 1
          \/ /\ ~Armed(m)
             /\ \/ \E m2 \in 1..m : swapsApplied[m2] >= 1
                \/ msg_seq > m

\* a conflict was escalated once and resolved by a substitution: the swap is
\* written, the timer is gone and no notice was sent
C22_Witness ==
    /\ msg_seq = 1 /\ swapsApplied[1] = 1 /\ TotalSkips = 0
    /\ ~Armed(1) /\ buttons = {} /\ boots = <<>>
    /\ \A u \in Users : swapping[u].pc = "idle"

\* C23: the queue name survives the payloads.  When a member presses the
\* opt-out button of queue `name` (the only one offered to that member), the
\* session records `name`; the escalation arms the timer under the recorded
\* name and broadcasts a button whose payload swap_users parses back to that
\* name and to the team; an accepted press reads the queue the timer of
\* that broadcast was armed for.
C23_QueueNameRoundTrip ==
    /\ [][\A u \in Users : \A name \in QueueNames :
             (/\ ask_for_reason(u, name)
              /\ \A other \in QueueNames \ {name} : ~OptOutOffered(u, other))
             => fsm'[u].queue_name = name]_vars
    /\ [][\A u \in Users : Escalates(u) =>
             /\ \A j \in jobs' \ jobs :
                   /\ j.queue_name = fsm[u].queue_name
                   /\ j.id = JobId(fsm[u].queue_name, get_team_chat(u))
             /\ \A b \in buttons' \ buttons :
                   /\ <<b.data[2]>> = fsm[u].queue_name
                   /\ Last(b.data) = IntStr(get_team_id(u))]_vars
    /\ [][\A u \in Users : Accepted(u) =>
             \A j \in jobs : j.run_date = swapping'[u].msg =>
                swapping'[u].queue_name = j.queue_name]_vars

\* C24: every swap displaces the initiator of the conflict: when a press on
\* the button of a broadcast is accepted, the member who holds the turn in
\* the array read, the one the swap takes the turn from, is the member the
\* broadcast names as unable to do the chore.
C24_SwapDisplacesInitiator ==
    [][\A u \in Users : Accepted(u) =>
          \A b \in buttons : b.msg = swapping'[u].msg =>
             swapping'[u].q_array[swapping'[u].ct_pos].user_id = b.user_name]_vars

====
